---- MODULE Spec2Model ----
(***************************************************************************)
(* RoleFit front end: the page controller (frontend/src/app/page.tsx,     *)
(* component Home) and the API client it calls (ResumeAnalyzerAPI).       *)
(*                                                                         *)
(* Strings are TLA+ strings.  A nullable JavaScript value (File | null,   *)
(* string | null) is the empty tuple for null and a one-element tuple     *)
(* otherwise.  A JSON value is a record [type, id, detail].               *)
(*                                                                         *)
(* The result visualization (frontend/src/components/VisualResults.tsx)   *)
(* is the variable view: the analysis it was mounted with, the local      *)
(* state of its animated widgets and their pending timers.  Fractions     *)
(* are records [num, den]; confidence_score is counted in thousandths.    *)
(*                                                                         *)
(* The diagnostic methods of the API client (testFileUpload, checkHealth)  *)
(* are not called by the page; the variable api holds one call of them.    *)
(***************************************************************************)
EXTENDS Integers, Sequences, FiniteSets, TLC

VARIABLES
    resumeFile,      \* useState<File | null>(null)
    jobDescription,  \* useState('')
    isAnalyzing,     \* useState(false)
    analysisResult,  \* useState<AnalysisResult | null>(null)
    error,           \* useState<string | null>(null)
    calls,           \* the handleAnalyze invocations that are suspended at an await
    lastNet,         \* what the network delivered to the call that settled last
    invocations,     \* how often handleAnalyze has been run
    posts,           \* how many POSTs to /analyze have been issued
    view,            \* the VisualResults component
    api              \* the call of a diagnostic method of the API client

vars == <<resumeFile, jobDescription, isAnalyzing, analysisResult, error, calls, lastNet,
          invocations, posts, view, api>>

(***************************************************************************)
(* Bounds                                                                  *)
(***************************************************************************)
MaxDescLen == 2   \* longest job description the user types
MaxCalls == 2     \* cap on the suspended handleAnalyze invocations
MaxInvocations == 2  \* cap on the runs of handleAnalyze
MaxListLen == 2   \* longest list of an analysis

(***************************************************************************)
(* JavaScript values                                                       *)
(***************************************************************************)
Null == <<>>
Some(v) == <<v>>

Json(type, id, detail) == [type |-> type, id |-> id, detail |-> detail]
JsonNull == Json("null", "", Null)
JsonFalse == Json("boolean", "false", Null)

\* JavaScript truthiness of a JSON value: null and false are falsy, objects truthy
Truthy(v) == ~(v.type = "null" \/ (v.type = "boolean" /\ v.id = "false"))

\* a thrown value: an Error instance with its message, or any other value
Thrown(isError, message) == [isError |-> isError, message |-> message]
NewError(message) == Thrown(TRUE, message)
NoThrown == Thrown(FALSE, "")

(***************************************************************************)
(* Inputs                                                                  *)
(***************************************************************************)
Files == {"resume.pdf", "resume.docx"}

Alphabet == {" ", "a"}

RECURSIVE StringsUpTo(_)
StringsUpTo(n) ==
    IF n = 0 THEN {""}
    ELSE LET shorter == StringsUpTo(n - 1)
         IN  shorter \cup {s \o c : s \in shorter, c \in Alphabet}

Descriptions == StringsUpTo(MaxDescLen)

Details == {"Unsupported file type"}

\* JSON bodies a server can send: the AnalysisResult objects, error objects with
\* and without detail, and the falsy values null and false
JsonValues ==
    {JsonNull, JsonFalse,
     Json("object", "result-1", Null), Json("object", "result-2", Null),
     Json("object", "error", Some(""))}
    \cup {Json("object", "error", Some(d)) : d \in Details}

Body(parseable, json) == [parseable |-> parseable, json |-> json]
Bodies == {Body(FALSE, JsonNull)} \cup {Body(TRUE, j) : j \in JsonValues}

StatusText(status) ==
    CASE status = 200 -> "OK"
      [] status = 422 -> "Unprocessable Entity"
      [] status = 500 -> "Internal Server Error"
      [] OTHER -> ""

Statuses == {200, 422, 500}

Response(status, body) ==
    [status |-> status, statusText |-> StatusText(status), body |-> body]
Responses == {Response(s, b) : s \in Statuses, b \in Bodies}
NoResponse == Response(0, Body(FALSE, JsonNull))

\* what fetch() can reject with: Error instances (with or without a message)
\* and values that are no Error instances
ThrownValues ==
    {NewError("Failed to fetch"), NewError(""),
     Thrown(FALSE, "timeout"), Thrown(FALSE, "")}

Net(kind, thrown, response) == [kind |-> kind, thrown |-> thrown, response |-> response]
NoNet == Net("none", NoThrown, NoResponse)

(***************************************************************************)
(* API client: ResumeAnalyzerAPI.analyzeResume                             *)
(***************************************************************************)
\* Response.ok
ResponseOk(response) == response.status >= 200 /\ response.status <= 299

\* messages of the errors the runtime raises inside the try block
SyntaxErrorMessage == "Unexpected token < in JSON at position 0"
TypeErrorMessage == "Cannot read properties of null (reading 'detail')"

\* the result of a call: a returned value or a thrown value
Return(value) == [ok |-> TRUE, value |-> value, error |-> NoThrown]
Throw(thrown) == [ok |-> FALSE, value |-> JsonNull, error |-> thrown]

\* await response.json()
ResponseJson(response) ==
    IF response.body.parseable THEN Return(response.body.json)
    ELSE Throw(NewError(SyntaxErrorMessage))

\* the status-line fallback without the status text
ErrorDetail_NoStatusText(errorData, response) ==
    IF errorData.detail # Null /\ errorData.detail[1] # ""
    THEN errorData.detail[1]
    ELSE "HTTP " \o ToString(response.status)

\* errorData.detail || `HTTP ${response.status}: ${response.statusText}`
ErrorDetail(errorData, response) ==
    IF errorData.detail # Null /\ errorData.detail[1] # ""
    THEN errorData.detail[1]
    ELSE "HTTP " \o ToString(response.status) \o ": " \o response.statusText

\* a try block that rejects a body without the AnalysisResult shape
TryBlock_ValidatesShape(net) ==
    IF net.kind = "rejected" THEN Throw(net.thrown)
    ELSE LET response == net.response
             parsed == ResponseJson(response)
         IN  IF ~ResponseOk(response)
             THEN IF ~parsed.ok THEN parsed
                  ELSE IF parsed.value.type = "null"
                       THEN Throw(NewError(TypeErrorMessage))
                       ELSE Throw(NewError(ErrorDetail(parsed.value, response)))
             ELSE IF parsed.ok /\ (parsed.value.type # "object" \/ parsed.value.detail # Null)
                  THEN Throw(NewError("Invalid response"))
                  ELSE parsed

\* the try block, from the point where fetch() has settled with net
TryBlock(net) ==
    IF net.kind = "rejected" THEN Throw(net.thrown)
    ELSE LET response == net.response
             parsed == ResponseJson(response)
         IN  IF ~ResponseOk(response)
             THEN IF ~parsed.ok THEN parsed
                  ELSE IF parsed.value.type = "null"
                       THEN Throw(NewError(TypeErrorMessage))
                       ELSE Throw(NewError(ErrorDetail(parsed.value, response)))
             ELSE parsed

\* a catch block that rethrows what it caught
CatchBlock_Rethrow(thrown) == Throw(thrown)

\* a catch block that picks the fallback by the message instead of the type
CatchBlock_ByMessage(thrown) ==
    IF thrown.message # ""
    THEN Throw(NewError("Analysis failed: " \o thrown.message))
    ELSE Throw(NewError("Analysis failed: Unknown error occurred"))

\* the catch block
CatchBlock(thrown) ==
    IF thrown.isError
    THEN Throw(NewError("Analysis failed: " \o thrown.message))
    ELSE Throw(NewError("Analysis failed: Unknown error occurred"))

AnalyzeResume(net) ==
    LET tried == TryBlock(net)
    IN  IF tried.ok THEN tried ELSE CatchBlock(tried.error)

(***************************************************************************)
(* API client: the diagnostic methods testFileUpload and checkHealth        *)
(***************************************************************************)
\* errorData.detail || 'Upload test failed'
UploadErrorDetail(errorData) ==
    IF errorData.detail # Null /\ errorData.detail[1] # ""
    THEN errorData.detail[1]
    ELSE "Upload test failed"

\* the try block of testFileUpload, from the point where fetch() has settled
UploadTryBlock(net) ==
    IF net.kind = "rejected" THEN Throw(net.thrown)
    ELSE LET response == net.response
             parsed == ResponseJson(response)
         IN  IF ~ResponseOk(response)
             THEN IF ~parsed.ok THEN parsed
                  ELSE IF parsed.value.type = "null"
                       THEN Throw(NewError(TypeErrorMessage))
                       ELSE Throw(NewError(UploadErrorDetail(parsed.value)))
             ELSE parsed

\* a catch block of testFileUpload that rethrows what it caught
UploadCatchBlock_Rethrow(thrown) == Throw(thrown)

\* the catch block of testFileUpload
UploadCatchBlock(thrown) ==
    IF thrown.isError
    THEN Throw(NewError("Upload test failed: " \o thrown.message))
    ELSE Throw(NewError("Upload test failed: Unknown error"))

TestFileUpload(net) ==
    LET tried == UploadTryBlock(net)
    IN  IF tried.ok THEN tried ELSE UploadCatchBlock(tried.error)

\* the try block of checkHealth, from the point where fetch() has settled
HealthTryBlock(net) ==
    IF net.kind = "rejected" THEN Throw(net.thrown)
    ELSE LET response == net.response
         IN  IF ~ResponseOk(response)
             THEN Throw(NewError("Health check failed: " \o ToString(response.status)))
             ELSE ResponseJson(response)

\* a catch block of checkHealth that rethrows what it caught
HealthCatchBlock_Rethrow(thrown) == Throw(thrown)

\* the catch block of checkHealth
HealthCatchBlock(thrown) ==
    IF thrown.isError
    THEN Throw(NewError("API connection failed: " \o thrown.message))
    ELSE Throw(NewError("API connection failed"))

CheckHealth(net) ==
    LET tried == HealthTryBlock(net)
    IN  IF tried.ok THEN tried ELSE HealthCatchBlock(tried.error)

\* a call of testFileUpload(file) or checkHealth(): where it stands, what the
\* network delivered to it and how it settled
ApiCall(method, file, phase, net, outcome) ==
    [method |-> method, file |-> file, phase |-> phase, net |-> net, outcome |-> outcome]
NoApiCall == ApiCall("none", Null, "idle", NoNet, Return(JsonNull))

\* the method has issued its fetch() and is suspended at the await
IssuedApiCall(method, file) == ApiCall(method, file, "fetch", NoNet, Return(JsonNull))

\* the method runs from the settled network outcome net to its end
ApiMethod(method, net) ==
    IF method = "checkHealth" THEN CheckHealth(net) ELSE TestFileUpload(net)

(***************************************************************************)
(* Result visualization: component VisualResults and its widgets           *)
(***************************************************************************)
\* a JavaScript number that is a quotient; den = 0 is NaN (0/0) or Infinity
Frac(num, den) == [num |-> num, den |-> den]
IsNaN(f) == f.den = 0 /\ f.num = 0
IsZero(f) == f.den # 0 /\ f.num = 0

Max(set) == CHOOSE m \in set : \A n \in set : n <= m

\* Math.floor in the place of Math.round
MathRound_Floor(f) == f.num \div f.den

\* Math.round of a non-negative quotient
MathRound(f) == (2 * f.num + f.den) \div (2 * f.den)

\* result.analysis
Analysis(ats_score, strengths, improvements, missing_keywords, keyword_matches, confidence_score) ==
    [ats_score |-> ats_score, strengths |-> strengths, improvements |-> improvements,
     missing_keywords |-> missing_keywords, keyword_matches |-> keyword_matches,
     confidence_score |-> confidence_score]
NoAnalysis == Analysis(0, <<>>, <<>>, <<>>, <<>>, 0)

\* a list of n strings
ListOf(name, n) == [i \in 1..n |-> name \o ToString(i)]

\* the JSON objects that are AnalysisResults, and the analysis each carries
HasAnalysis(json) == json.type = "object" /\ json.id \in {"result-1", "result-2"}
AnalysisOf(json) ==
    IF json.id = "result-1"
    THEN Analysis(85, ListOf("strength", 2), ListOf("improvement", 1),
                  ListOf("missing", 1), ListOf("match", 2), 875)
    ELSE NoAnalysis

\* the analyses VisualResults is rendered with on its own
Scores == 0..100
Confidences == {0, 575, 1000}
AnalysisInputs ==
    {Analysis(score, ListOf("strength", a), ListOf("improvement", b),
              ListOf("missing", c), ListOf("match", d), confidence) :
        score \in Scores, a \in 0..MaxListLen, b \in 0..MaxListLen,
        c \in 0..MaxListLen, d \in 0..MaxListLen, confidence \in Confidences}

\* getColor with exclusive thresholds
GetColor_Exclusive(percentage) ==
    IF percentage > 80 THEN "#8b5cf6"
    ELSE IF percentage > 60 THEN "#6366f1"
    ELSE "#f87171"

\* CircularProgress.getColor
GetColor(percentage) ==
    IF percentage >= 80 THEN "#8b5cf6"
    ELSE IF percentage >= 60 THEN "#6366f1"
    ELSE "#f87171"

\* matchPercentage without the total > 0 test
MatchPercentage_NoGuard(matched, missing) ==
    Frac(Len(matched) * 100, Len(matched) + Len(missing))

\* SkillMatchRadar: matchPercentage
MatchPercentage(matched, missing) ==
    LET total == Len(matched) + Len(missing)
    IN  IF total > 0 THEN Frac(Len(matched) * 100, total) ELSE Frac(0, 1)

\* ConfidenceMeter: confidencePercentage = confidence * 100
ConfidencePercentage(confidence) == Frac(confidence * 100, 1000)

\* VisualResults: barData
BarData(analysis) ==
    << [label |-> "Strengths", value |-> Len(analysis.strengths)],
       [label |-> "Improvements", value |-> Len(analysis.improvements)],
       [label |-> "Missing Keywords", value |-> Len(analysis.missing_keywords)],
       [label |-> "Matched Keywords", value |-> Len(analysis.keyword_matches)] >>

\* Math.max over the four counts only
MaxValue_NoFloor(barData) == Max({barData[i].value : i \in 1..Len(barData)})

\* Math.max(...barData.map((d) => d.value), 1)
MaxValue(barData) == Max({barData[i].value : i \in 1..Len(barData)} \cup {1})

\* BarChart: width of one bar, animated ? (item.value / maxValue) * 100 : 0
BarWidth(item, maxValue, animated) ==
    IF animated THEN Frac(item.value * 100, maxValue) ELSE Frac(0, 1)

\* getScoreLabel with exclusive thresholds
GetScoreLabel_Exclusive(score) ==
    IF score > 80 THEN "Excellent"
    ELSE IF score > 60 THEN "Good"
    ELSE IF score > 40 THEN "Fair"
    ELSE "Needs Improvement"

\* VisualResults: getScoreLabel
GetScoreLabel(score) ==
    IF score >= 80 THEN "Excellent"
    ELSE IF score >= 60 THEN "Good"
    ELSE IF score >= 40 THEN "Fair"
    ELSE "Needs Improvement"

\* VisualResults: getScoreColor
GetScoreColor(score) ==
    IF score >= 80 THEN "text-violet-300"
    ELSE IF score >= 60 THEN "text-indigo-300"
    ELSE IF score >= 40 THEN "text-slate-300"
    ELSE "text-rose-300"

\* the texts of a list section: analysis.strengths.map(...), one item per entry
ListItems(list) == [i \in 1..Len(list) |-> list[i]]

\* a keyword section without the placeholder
KeywordItems_NoPlaceholder(list, placeholder) == ListItems(list)

\* the texts of a keyword section: the mapped entries, then the placeholder
\* {list.length === 0 && (...)}
KeywordItems(list, placeholder) ==
    ListItems(list) \o (IF Len(list) = 0 THEN <<placeholder>> ELSE <<>>)

\* the component right after its first render: local state initial, the three
\* effects have set their timers
Mounted(analysis) ==
    [mounted |-> TRUE, analysis |-> analysis,
     animatedPercentage |-> 0, ringTimer |-> TRUE,
     barAnimated |-> FALSE, barTimer |-> TRUE,
     confidenceAnimated |-> FALSE, confidenceTimer |-> TRUE]

Unmounted ==
    [mounted |-> FALSE, analysis |-> NoAnalysis,
     animatedPercentage |-> 0, ringTimer |-> FALSE,
     barAnimated |-> FALSE, barTimer |-> FALSE,
     confidenceAnimated |-> FALSE, confidenceTimer |-> FALSE]

Reverse(seq) == [i \in 1..Len(seq) |-> seq[Len(seq) + 1 - i]]

\* a render that reverses the matched keywords in place
Render_ReversesInPlace(v) == [v EXCEPT !.analysis.keyword_matches = Reverse(@)]

\* a render of the component tree: it reads result.analysis (length, map, the
\* numbers) and writes neither to it nor to the local state
Render(v) == v

\* <VisualResults result={analysisResult} />: reading result.analysis of a value
\* that has none throws during render and nothing is mounted
MountVisualResults(result) ==
    IF HasAnalysis(result) THEN Render(Mounted(AnalysisOf(result))) ELSE Unmounted

\* a teardown without the effect cleanups: the timers stay pending
UnmountVisualResults_NoCleanup ==
    [Unmounted EXCEPT !.ringTimer = view.ringTimer, !.barTimer = view.barTimer,
                      !.confidenceTimer = view.confidenceTimer]

\* the effect cleanups clear the timers and the local state is dropped
UnmountVisualResults == Unmounted

\* what the mounted component shows
Rendered ==
    LET analysis == view.analysis
        barData == BarData(analysis)
        maxValue == MaxValue(barData)
    IN  [scoreNumber |-> view.animatedPercentage,
         ringColor |-> GetColor(analysis.ats_score),
         ringFill |-> Frac(view.animatedPercentage, 100),
         matchedCount |-> Len(analysis.keyword_matches),
         missingCount |-> Len(analysis.missing_keywords),
         matchHeight |-> MatchPercentage(analysis.keyword_matches,
                                         analysis.missing_keywords),
         confidenceText |-> MathRound(ConfidencePercentage(analysis.confidence_score)),
         confidenceWidth |-> IF view.confidenceAnimated
                             THEN ConfidencePercentage(analysis.confidence_score)
                             ELSE Frac(0, 1),
         totalKeywords |-> Len(analysis.keyword_matches) + Len(analysis.missing_keywords),
         barLabels |-> [i \in 1..Len(barData) |-> barData[i].value],
         barWidths |-> [i \in 1..Len(barData) |->
                           BarWidth(barData[i], maxValue, view.barAnimated)],
         scoreLabel |-> GetScoreLabel(analysis.ats_score),
         scoreLabelClass |-> GetScoreColor(analysis.ats_score),
         strengthsItems |-> ListItems(analysis.strengths),
         improvementsItems |-> ListItems(analysis.improvements),
         missingItems |-> KeywordItems(analysis.missing_keywords,
                                       "No missing keywords identified"),
         matchedItems |-> KeywordItems(analysis.keyword_matches,
                                       "No keyword matches found")]

(***************************************************************************)
(* Page controller: component Home                                         *)
(***************************************************************************)
IsWhitespace(c) == c \in {" ", "\t", "\n", "\r"}

RECURSIVE TrimStart(_)
TrimStart(s) ==
    IF Len(s) > 0 /\ IsWhitespace(SubSeq(s, 1, 1))
    THEN TrimStart(SubSeq(s, 2, Len(s)))
    ELSE s

RECURSIVE TrimEnd(_)
TrimEnd(s) ==
    IF Len(s) > 0 /\ IsWhitespace(SubSeq(s, Len(s), Len(s)))
    THEN TrimEnd(SubSeq(s, 1, Len(s) - 1))
    ELSE s

\* String.prototype.trim
Trim(s) == TrimEnd(TrimStart(s))

\* {!analysisResult && ( ...the form... )}
FormShown == ~Truthy(analysisResult)

\* {analysisResult && ( ...reset button, VisualResults... )}
ResultsShown == Truthy(analysisResult)

\* {error && ( ...error display... )} inside the form
ErrorShown == FormShown /\ error # Null /\ error[1] # ""

\* a disabled expression that does not trim the description
SubmitDisabled_NoTrim == resumeFile = Null \/ jobDescription = "" \/ isAnalyzing

\* a disabled expression that ignores the request in flight
SubmitDisabled_NoInFlight == resumeFile = Null \/ Trim(jobDescription) = ""

\* disabled={!resumeFile || !jobDescription.trim() || isAnalyzing}
SubmitDisabled == resumeFile = Null \/ Trim(jobDescription) = "" \/ isAnalyzing

\* the Analyze button can be clicked: it is rendered and not disabled
SubmitEnabled == FormShown /\ ~SubmitDisabled

Call(file, description, phase, response) ==
    [resumeFile |-> file, jobDescription |-> description,
     phase |-> phase, response |-> response]

RemoveAt(seq, i) == SubSeq(seq, 1, i - 1) \o SubSeq(seq, i + 1, Len(seq))

Init ==
    /\ resumeFile = Null
    /\ jobDescription = ""
    /\ isAnalyzing = FALSE
    /\ analysisResult = JsonNull
    /\ error = Null
    /\ calls = <<>>
    /\ lastNet = NoNet
    /\ invocations = 0
    /\ posts = 0
    /\ view = Unmounted
    /\ api = NoApiCall

\* handleFileUpload without setError(null)
HandleFileUpload_KeepsError(file) ==
    /\ IF file # Null
       THEN resumeFile' = file
       ELSE UNCHANGED resumeFile
    /\ UNCHANGED <<jobDescription, isAnalyzing, analysisResult, error, calls, lastNet,
                   invocations, posts, view, api>>

\* handleFileUpload; file = Null is a change event with an empty file list
HandleFileUpload(file) ==
    /\ IF file # Null
       THEN /\ resumeFile' = file
            /\ error' = Null
       ELSE UNCHANGED <<resumeFile, error, api>>
    /\ UNCHANGED <<jobDescription, isAnalyzing, analysisResult, calls, lastNet,
                   invocations, posts, view, api>>

\* the file input's onChange; the input is part of the form
SelectFile ==
    /\ FormShown
    /\ \E file \in {Null} \cup {Some(f) : f \in Files} : HandleFileUpload(file)

\* an onChange that also rewrites the description of the request in flight
EditDescription_ChangesRequest ==
    /\ FormShown
    /\ \E d \in Descriptions :
          /\ jobDescription' = d
          /\ calls' = [i \in 1..Len(calls) |-> [calls[i] EXCEPT !.jobDescription = d]]
    /\ UNCHANGED <<resumeFile, isAnalyzing, analysisResult, error, lastNet,
                   invocations, posts, view, api>>

\* the textarea's onChange; the textarea is part of the form
EditDescription ==
    /\ FormShown
    /\ \E d \in Descriptions : jobDescription' = d
    /\ UNCHANGED <<resumeFile, isAnalyzing, analysisResult, error, calls, lastNet,
                   invocations, posts, view, api>>

\* handleAnalyze without setError(null)
HandleAnalyze_KeepsError ==
    IF resumeFile = Null \/ Trim(jobDescription) = ""
    THEN /\ error' = Some("Please upload a resume and enter a job description")
         /\ invocations' = invocations + 1
         /\ UNCHANGED <<resumeFile, jobDescription, isAnalyzing, analysisResult,
                        calls, lastNet, posts, view, api>>
    ELSE /\ isAnalyzing' = TRUE
         /\ analysisResult' = JsonNull
         /\ calls' = Append(calls, Call(resumeFile, jobDescription, "fetch", NoResponse))
         /\ posts' = posts + 1
         /\ invocations' = invocations + 1
         /\ UNCHANGED <<resumeFile, jobDescription, error, lastNet, view, api>>

\* handleAnalyze without the validation
HandleAnalyze_NoValidation ==
    /\ isAnalyzing' = TRUE
    /\ error' = Null
    /\ analysisResult' = JsonNull
    /\ calls' = Append(calls, Call(resumeFile, jobDescription, "fetch", NoResponse))
    /\ posts' = posts + 1
    /\ invocations' = invocations + 1
    /\ UNCHANGED <<resumeFile, jobDescription, lastNet, view, api>>

\* handleAnalyze without setAnalysisResult(null)
HandleAnalyze_KeepsResult ==
    IF resumeFile = Null \/ Trim(jobDescription) = ""
    THEN /\ error' = Some("Please upload a resume and enter a job description")
         /\ invocations' = invocations + 1
         /\ UNCHANGED <<resumeFile, jobDescription, isAnalyzing, analysisResult,
                        calls, lastNet, posts, view, api>>
    ELSE /\ isAnalyzing' = TRUE
         /\ error' = Null
         /\ calls' = Append(calls, Call(resumeFile, jobDescription, "fetch", NoResponse))
         /\ posts' = posts + 1
         /\ invocations' = invocations + 1
         /\ UNCHANGED <<resumeFile, jobDescription, analysisResult, lastNet, view, api>>

\* handleAnalyze up to its first await: validation, the three state updates,
\* and the fetch() that analyzeResume issues before it suspends
HandleAnalyze ==
    IF resumeFile = Null \/ Trim(jobDescription) = ""
    THEN /\ error' = Some("Please upload a resume and enter a job description")
         /\ invocations' = invocations + 1
         /\ UNCHANGED <<resumeFile, jobDescription, isAnalyzing, analysisResult,
                        calls, lastNet, posts, view, api>>
    ELSE /\ isAnalyzing' = TRUE
         /\ error' = Null
         /\ analysisResult' = JsonNull
         /\ calls' = Append(calls, Call(resumeFile, jobDescription, "fetch", NoResponse))
         /\ posts' = posts + 1
         /\ invocations' = invocations + 1
         /\ UNCHANGED <<resumeFile, jobDescription, lastNet, view, api>>

\* a click on the Analyze button
ClickAnalyze ==
    /\ SubmitEnabled
    /\ Len(calls) < MaxCalls
    /\ invocations < MaxInvocations
    /\ HandleAnalyze

\* a continuation that does not store the returned value
AfterAnalyze_DropsResult(outcome) ==
    /\ IF outcome.ok
       THEN UNCHANGED <<analysisResult, error, api>>
       ELSE /\ error' = Some(IF outcome.error.isError
                             THEN outcome.error.message
                             ELSE "Analysis failed. Please try again.")
            /\ UNCHANGED analysisResult
    /\ isAnalyzing' = FALSE

\* a continuation that always shows the generic message
AfterAnalyze_GenericMessage(outcome) ==
    /\ IF outcome.ok
       THEN /\ analysisResult' = outcome.value
            /\ UNCHANGED error
       ELSE /\ error' = Some("Analysis failed. Please try again.")
            /\ UNCHANGED analysisResult
    /\ isAnalyzing' = FALSE

\* a continuation that clears isAnalyzing in the try block only
AfterAnalyze_NoFinally(outcome) ==
    IF outcome.ok
    THEN /\ analysisResult' = outcome.value
         /\ isAnalyzing' = FALSE
         /\ UNCHANGED error
    ELSE /\ error' = Some(IF outcome.error.isError
                          THEN outcome.error.message
                          ELSE "Analysis failed. Please try again.")
         /\ UNCHANGED <<analysisResult, isAnalyzing>>

\* handleAnalyze after analyzeResume has settled: try / catch / finally
AfterAnalyze(outcome) ==
    /\ IF outcome.ok
       THEN /\ analysisResult' = outcome.value
            /\ UNCHANGED error
       ELSE /\ error' = Some(IF outcome.error.isError
                             THEN outcome.error.message
                             ELSE "Analysis failed. Please try again.")
            /\ UNCHANGED analysisResult
    /\ isAnalyzing' = FALSE

\* a call that issues the request again when it failed
Settle_Retry(i, net) ==
    IF AnalyzeResume(net).ok
    THEN /\ AfterAnalyze(AnalyzeResume(net))
         /\ calls' = RemoveAt(calls, i)
         /\ lastNet' = net
         /\ view' = IF ~Truthy(analysisResult) /\ Truthy(analysisResult')
                    THEN MountVisualResults(analysisResult')
                    ELSE view
         /\ UNCHANGED <<resumeFile, jobDescription, invocations, posts, api>>
    ELSE /\ calls' = [calls EXCEPT ![i].phase = "fetch", ![i].response = NoResponse]
         /\ posts' = posts + 1
         /\ lastNet' = net
         /\ UNCHANGED <<resumeFile, jobDescription, isAnalyzing, analysisResult, error,
                        invocations, view, api>>

\* call i runs from the settled network outcome net to the end of handleAnalyze
Settle(i, net) ==
    /\ AfterAnalyze(AnalyzeResume(net))
    /\ calls' = RemoveAt(calls, i)
    /\ lastNet' = net
    /\ view' = IF ~Truthy(analysisResult) /\ Truthy(analysisResult')
               THEN MountVisualResults(analysisResult')
               ELSE view
    /\ UNCHANGED <<resumeFile, jobDescription, invocations, posts, api>>

\* fetch() resolves with a response; the call goes on to await response.json()
FetchResolves ==
    \E i \in 1..Len(calls), response \in Responses :
        /\ calls[i].phase = "fetch"
        /\ calls' = [calls EXCEPT ![i].phase = "json", ![i].response = response]
        /\ UNCHANGED <<resumeFile, jobDescription, isAnalyzing, analysisResult,
                       error, lastNet, invocations, posts, view, api>>

\* fetch() rejects: the transport failed
FetchRejects ==
    \E i \in 1..Len(calls), thrown \in ThrownValues :
        /\ calls[i].phase = "fetch"
        /\ Settle(i, Net("rejected", thrown, NoResponse))

\* response.json() settles
JsonSettles ==
    \E i \in 1..Len(calls) :
        /\ calls[i].phase = "json"
        /\ Settle(i, Net("response", NoThrown, calls[i].response))

\* a reset that leaves the description in place
Reset_KeepsDescription ==
    /\ analysisResult' = JsonNull
    /\ resumeFile' = Null
    /\ error' = Null
    /\ view' = UnmountVisualResults
    /\ UNCHANGED <<jobDescription, isAnalyzing, calls, lastNet, invocations, posts, api>>

\* the "Analyze Another Resume" button's onClick
Reset ==
    /\ analysisResult' = JsonNull
    /\ resumeFile' = Null
    /\ jobDescription' = ""
    /\ error' = Null
    /\ view' = UnmountVisualResults
    /\ UNCHANGED <<isAnalyzing, calls, lastNet, invocations, posts, api>>

\* a click on the reset button, which is rendered with the results, provided
\* that VisualResults rendered
ClickReset ==
    /\ ResultsShown
    /\ view.mounted
    /\ Reset

controller == <<resumeFile, jobDescription, isAnalyzing, analysisResult, error, calls,
                lastNet, invocations, posts, api>>

\* CircularProgress: the 300 ms timer runs setAnimatedPercentage(percentage) and
\* the component renders again
RingTimerFires ==
    /\ view.ringTimer
    /\ view' = Render([view EXCEPT !.ringTimer = FALSE,
                                   !.animatedPercentage = view.analysis.ats_score])
    /\ UNCHANGED controller

\* BarChart: the 500 ms timer runs setAnimated(true)
BarTimerFires ==
    /\ view.barTimer
    /\ ~view.ringTimer
    /\ view' = Render([view EXCEPT !.barTimer = FALSE, !.barAnimated = TRUE])
    /\ UNCHANGED controller

\* ConfidenceMeter: the 800 ms timer runs setAnimated(true)
ConfidenceTimerFires ==
    /\ view.confidenceTimer
    /\ ~view.barTimer
    /\ view' = Render([view EXCEPT !.confidenceTimer = FALSE,
                                   !.confidenceAnimated = TRUE])
    /\ UNCHANGED controller

Next ==
    \/ SelectFile
    \/ EditDescription
    \/ ClickAnalyze
    \/ FetchResolves
    \/ FetchRejects
    \/ JsonSettles
    \/ ClickReset
    \/ RingTimerFires
    \/ BarTimerFires
    \/ ConfidenceTimerFires

Spec == Init /\ [][Next]_vars

(***************************************************************************)
(* handleAnalyze run without the button's disabled expression in its way   *)
(***************************************************************************)
\* handleAnalyze is run while the form is shown and no call is in flight,
\* whatever the inputs are
RunHandleAnalyze ==
    /\ FormShown
    /\ ~isAnalyzing
    /\ invocations < MaxInvocations
    /\ HandleAnalyze

NextHandler ==
    \/ Next
    \/ RunHandleAnalyze

SpecHandler == Init /\ [][NextHandler]_vars

(***************************************************************************)
(* VisualResults on its own, rendered with any analysis                    *)
(***************************************************************************)
InitView ==
    /\ resumeFile = Null
    /\ jobDescription = ""
    /\ isAnalyzing = FALSE
    /\ analysisResult = JsonNull
    /\ error = Null
    /\ calls = <<>>
    /\ lastNet = NoNet
    /\ invocations = 0
    /\ posts = 0
    /\ view \in {Mounted(analysis) : analysis \in AnalysisInputs}
    /\ api = NoApiCall

\* the parent stops rendering the component
UnmountView ==
    /\ view.mounted
    /\ view' = UnmountVisualResults
    /\ UNCHANGED controller

NextView ==
    \/ RingTimerFires
    \/ BarTimerFires
    \/ ConfidenceTimerFires
    \/ UnmountView

SpecView == InitView /\ [][NextView]_vars

(***************************************************************************)
(* The diagnostic methods on their own, called once                        *)
(***************************************************************************)
InitApi ==
    /\ resumeFile = Null
    /\ jobDescription = ""
    /\ isAnalyzing = FALSE
    /\ analysisResult = JsonNull
    /\ error = Null
    /\ calls = <<>>
    /\ lastNet = NoNet
    /\ invocations = 0
    /\ posts = 0
    /\ view = Unmounted
    /\ api \in {IssuedApiCall("checkHealth", Null)}
               \cup {IssuedApiCall("testFileUpload", Some(f)) : f \in Files}

page == <<resumeFile, jobDescription, isAnalyzing, analysisResult, error, calls,
          lastNet, invocations, posts, view>>

\* fetch() resolves with a response
ApiFetchResolves ==
    \E response \in Responses :
        /\ api.phase = "fetch"
        /\ LET net == Net("response", NoThrown, response)
           IN  IF api.method = "checkHealth" /\ ~ResponseOk(response)
               THEN \* checkHealth throws without reading the body
                    api' = [api EXCEPT !.phase = "settled", !.net = net,
                                       !.outcome = ApiMethod(api.method, net)]
               ELSE api' = [api EXCEPT !.phase = "json", !.net = net]
        /\ UNCHANGED page

\* fetch() rejects: the transport failed
ApiFetchRejects ==
    \E thrown \in ThrownValues :
        /\ api.phase = "fetch"
        /\ LET net == Net("rejected", thrown, NoResponse)
           IN  api' = [api EXCEPT !.phase = "settled", !.net = net,
                                  !.outcome = ApiMethod(api.method, net)]
        /\ UNCHANGED page

\* response.json() settles and the method runs to its end
ApiJsonSettles ==
    /\ api.phase = "json"
    /\ api' = [api EXCEPT !.phase = "settled",
                          !.outcome = ApiMethod(api.method, api.net)]
    /\ UNCHANGED page

NextApi ==
    \/ ApiFetchResolves
    \/ ApiFetchRejects
    \/ ApiJsonSettles

SpecApi == InitApi /\ [][NextApi]_vars

(***************************************************************************)
(* Vocabulary of the properties                                            *)
(***************************************************************************)
\* s has a character that is no whitespace
NonBlank(s) == \E i \in 1..Len(s) : ~IsWhitespace(SubSeq(s, i, i))

\* an analyzeResume call is in flight
RequestInFlight == calls # <<>>

\* this step runs a suspended call to the end of handleAnalyze
SettledStep == Len(calls') < Len(calls)

\* this step is an accepted submit
SubmitStep == Len(calls') > Len(calls)

\* the network outcome is at least a response
IsResponse(net) == net.kind = "response"

ControllerState == <<resumeFile, jobDescription, isAnalyzing, analysisResult, error>>
InitialControllerState == <<Null, "", FALSE, JsonNull, Null>>

(***************************************************************************)
(* C1                                                                      *)
(***************************************************************************)
\* C1 as stated: in every reachable state the submit control is enabled iff a file
\* is selected, the description is non-blank after trimming and no request is in
\* flight.
C1_AsStated ==
    SubmitEnabled <=> (resumeFile # Null /\ NonBlank(jobDescription) /\ ~RequestInFlight)

\* C1 amended: while the form is shown the submit control is enabled iff a file is
\* selected, the description is non-blank after trimming and no request is in
\* flight; while the results are shown there is no submit control to use.
C1_SubmitEnabledInForm ==
    /\ FormShown =>
          (SubmitEnabled <=>
              (resumeFile # Null /\ NonBlank(jobDescription) /\ ~RequestInFlight))
    /\ ResultsShown => ~SubmitEnabled

\* a file is selected, the description is whitespace only, the control is disabled
C1_Witness ==
    /\ FormShown
    /\ resumeFile # Null
    /\ Len(jobDescription) = 2
    /\ ~NonBlank(jobDescription)
    /\ ~RequestInFlight
    /\ ~SubmitEnabled

(***************************************************************************)
(* C2                                                                      *)
(***************************************************************************)
\* C2: over every interleaving of user actions and response arrivals at most one
\* analyzeResume request is in flight, and no submit starts while isAnalyzing.
C2_AtMostOneInFlight ==
    /\ Len(calls) <= 1
    /\ isAnalyzing => ~SubmitEnabled

\* a request is in flight while the user has already changed both inputs
C2_Witness ==
    /\ Len(calls) = 1
    /\ isAnalyzing
    /\ resumeFile # calls[1].resumeFile
    /\ jobDescription # calls[1].jobDescription
    /\ NonBlank(jobDescription)

NetFailed(net) ==
    \/ net.kind = "rejected"
    \/ /\ IsResponse(net)
       /\ (~ResponseOk(net.response) \/ ~net.response.body.parseable)

\* C4: whenever a call fails (HTTP, transport or parse error) the controller
\* stores the message of the error analyzeResume threw, the result stays null and
\* the form stays shown with the error displayed.
C4_FailureStoresError ==
    [][(SettledStep /\ NetFailed(lastNet'))
       => (/\ ~AnalyzeResume(lastNet').ok
           /\ error' = Some(AnalyzeResume(lastNet').error.message)
           /\ analysisResult = JsonNull
           /\ analysisResult' = JsonNull
           /\ FormShown'
           /\ ErrorShown')]_vars

\* the form shows the error of a failed call
C4_Witness ==
    /\ NetFailed(lastNet)
    /\ ErrorShown
    /\ error = Some(AnalyzeResume(lastNet).error.message)
    /\ analysisResult = JsonNull
    /\ ~RequestInFlight

(***************************************************************************)
(* C5                                                                      *)
(***************************************************************************)
\* C5: isAnalyzing is true exactly while an accepted submit's call has not
\* settled; it is false again once the call settled, on success and on failure.
C5_AnalyzingIffInFlight == isAnalyzing <=> RequestInFlight

\* a call has failed and the controller is no longer submitting
C5_Witness ==
    /\ NetFailed(lastNet)
    /\ error # Null
    /\ ~RequestInFlight
    /\ ~isAnalyzing

(***************************************************************************)
(* C6                                                                      *)
(***************************************************************************)
\* C6: an accepted submit sets isAnalyzing, clears the error and the result before
\* the call is issued, so that while a request is in flight no error and no
\* result of an earlier submission is stored.
C6_SubmitClears ==
    RequestInFlight => (isAnalyzing /\ error = Null /\ analysisResult = JsonNull)

\* a new request is in flight after an earlier submission has failed
C6_Witness ==
    /\ RequestInFlight
    /\ calls[1].phase = "fetch"
    /\ lastNet.kind = "rejected"
    /\ error = Null

(***************************************************************************)
(* C7                                                                      *)
(***************************************************************************)
\* C7: the reset action, which is the only step that leaves the results view,
\* sets result, file and error to null and the description to "", which is the
\* initial state, and leaves the submit control disabled.
C7_ResetRestoresInitial ==
    [][(ResultsShown /\ ~ResultsShown')
       => (/\ ControllerState' = InitialControllerState
           /\ FormShown'
           /\ ~SubmitEnabled')]_vars

\* the controller is back in the initial state after a completed analysis
C7_Witness ==
    /\ ControllerState = InitialControllerState
    /\ IsResponse(lastNet)
    /\ ~RequestInFlight

(***************************************************************************)
(* C8                                                                      *)
(***************************************************************************)
\* C8: for a non-2xx response whose JSON body has a non-empty detail d the error
\* surfaced is "Analysis failed: " followed by d, the prefix applied once.
C8_DetailSurfaced ==
    [][(/\ SettledStep
        /\ IsResponse(lastNet')
        /\ ~ResponseOk(lastNet'.response)
        /\ lastNet'.response.body.parseable
        /\ lastNet'.response.body.json.detail # Null
        /\ lastNet'.response.body.json.detail[1] # "")
       => error' = Some("Analysis failed: " \o lastNet'.response.body.json.detail[1])]_vars

\* status 422 with detail "Unsupported file type"
C8_Witness ==
    /\ IsResponse(lastNet)
    /\ lastNet.response.status = 422
    /\ lastNet.response.body = Body(TRUE, Json("object", "error", Some("Unsupported file type")))
    /\ error = Some("Analysis failed: Unsupported file type")

(***************************************************************************)
(* C9                                                                      *)
(***************************************************************************)
\* "Analysis failed: HTTP <status>: <statusText>"
StatusLineMessage(response) ==
    "Analysis failed: HTTP " \o ToString(response.status) \o ": " \o response.statusText

\* C9 as stated: for a non-2xx response whose body does not parse or whose parsed
\* body lacks a detail field the error is the status-line message.
C9_AsStated ==
    [][(/\ SettledStep
        /\ IsResponse(lastNet')
        /\ ~ResponseOk(lastNet'.response)
        /\ \/ ~lastNet'.response.body.parseable
           \/ lastNet'.response.body.json.detail = Null)
       => error' = Some(StatusLineMessage(lastNet'.response))]_vars

\* C9 amended: for a non-2xx response whose body parses to a JSON value other
\* than null without a non-empty detail the error is the status-line message; a
\* body that does not parse gives "Analysis failed: " followed by the parse
\* error's message, and a null body the message of the failed property read.
C9_StatusLineFallback ==
    [][(/\ SettledStep
        /\ IsResponse(lastNet')
        /\ ~ResponseOk(lastNet'.response))
       => LET body == lastNet'.response.body
          IN  /\ (/\ body.parseable
                  /\ body.json.type # "null"
                  /\ (body.json.detail = Null \/ body.json.detail = Some("")))
                 => error' = Some(StatusLineMessage(lastNet'.response))
              /\ ~body.parseable
                 => error' = Some("Analysis failed: " \o SyntaxErrorMessage)
              /\ (body.parseable /\ body.json.type = "null")
                 => error' = Some("Analysis failed: " \o TypeErrorMessage)]_vars

\* status 500 with a JSON object without detail
C9_Witness ==
    /\ IsResponse(lastNet)
    /\ lastNet.response.status = 500
    /\ lastNet.response.body.parseable
    /\ lastNet.response.body.json.type = "object"
    /\ lastNet.response.body.json.detail = Null
    /\ error = Some("Analysis failed: HTTP 500: Internal Server Error")

(***************************************************************************)
(* C10                                                                     *)
(***************************************************************************)
\* the call failed at transport or parse level
TransportOrParseFailure(net) ==
    \/ net.kind = "rejected"
    \/ IsResponse(net) /\ ~net.response.body.parseable

\* the value the try block threw there
UnderlyingFailure(net) ==
    IF net.kind = "rejected" THEN net.thrown ELSE NewError(SyntaxErrorMessage)

\* C10 as stated: on a transport or parse failure the error is "Analysis failed: "
\* followed by the failure's message when it carries one, and it is
\* "Analysis failed: Unknown error occurred" exactly when it carries none.
C10_AsStated ==
    [][(SettledStep /\ TransportOrParseFailure(lastNet'))
       => LET message == UnderlyingFailure(lastNet').message
          IN  /\ message # "" => error' = Some("Analysis failed: " \o message)
              /\ error' = Some("Analysis failed: Unknown error occurred")
                 <=> message = ""]_vars

\* C10 amended: on a transport or parse failure the error is "Analysis failed: "
\* followed by the failure's message whenever the failure is an Error instance,
\* also when that message is empty, and it is "Analysis failed: Unknown error
\* occurred" whenever the failure is no Error instance, whatever it carries.
C10_UnknownIffNotError ==
    [][(SettledStep /\ TransportOrParseFailure(lastNet'))
       => LET failure == UnderlyingFailure(lastNet')
          IN  /\ failure.isError
                 => error' = Some("Analysis failed: " \o failure.message)
              /\ ~failure.isError
                 => error' = Some("Analysis failed: Unknown error occurred")]_vars

\* fetch rejected with a value that is no Error instance
C10_Witness ==
    /\ lastNet.kind = "rejected"
    /\ ~lastNet.thrown.isError
    /\ lastNet.thrown.message = "timeout"
    /\ error = Some("Analysis failed: Unknown error occurred")

(***************************************************************************)
(* C11                                                                     *)
(***************************************************************************)
ValidationMessage == "Please upload a resume and enter a job description"

\* no file is selected or the description is blank
InvalidInputs == resumeFile = Null \/ ~NonBlank(jobDescription)

\* C11: when handleAnalyze runs with no file selected or with a blank
\* description it issues no request, sets the error to the validation message
\* and leaves isAnalyzing false and the stored result as it was.
C11_ValidationRejects ==
    [][(invocations' > invocations /\ InvalidInputs)
       => (/\ posts' = posts
           /\ calls' = calls
           /\ error' = Some(ValidationMessage)
           /\ ~isAnalyzing /\ ~isAnalyzing'
           /\ analysisResult' = analysisResult)]_vars

\* handleAnalyze was rejected while the falsy result of an earlier call is stored
C11_Witness ==
    /\ error = Some(ValidationMessage)
    /\ analysisResult = JsonFalse
    /\ InvalidInputs
    /\ ~isAnalyzing
    /\ invocations = 2
    /\ posts = 1

(***************************************************************************)
(* C12                                                                     *)
(***************************************************************************)
\* C12: every accepted submit issues exactly one POST: the number of requests
\* sent equals the number of accepted submits, every run of the handler through
\* the button is accepted, and a call that settles issues no further request.
C12_OnePostPerSubmit ==
    /\ [](posts = invocations)
    /\ [][(invocations' > invocations) => (SubmitStep /\ posts' = posts + 1)]_vars
    /\ [][SettledStep => posts' = posts]_vars

\* two submissions have failed and two requests have been sent
C12_Witness ==
    /\ posts = 2
    /\ invocations = 2
    /\ NetFailed(lastNet)
    /\ error # Null
    /\ ~RequestInFlight

(***************************************************************************)
(* C13                                                                     *)
(***************************************************************************)
\* C13 as stated: after any failed submission file and description are
\* unchanged, isAnalyzing is false and the submit control is enabled again.
C13_AsStated ==
    [][(SettledStep /\ NetFailed(lastNet'))
       => (/\ resumeFile' = resumeFile
           /\ jobDescription' = jobDescription
           /\ ~isAnalyzing'
           /\ SubmitEnabled')]_vars

\* C13 amended: a failed submission leaves the file and the description of the
\* form as they are and isAnalyzing false; the submit control is enabled again
\* exactly when that description is non-blank, which it is unless the user
\* blanked it while the request was in flight.
C13_FailureRecoverable ==
    [][(SettledStep /\ NetFailed(lastNet'))
       => (/\ resumeFile' = resumeFile
           /\ resumeFile' # Null
           /\ jobDescription' = jobDescription
           /\ ~isAnalyzing'
           /\ SubmitEnabled' <=> NonBlank(jobDescription')
           /\ jobDescription = calls[1].jobDescription => SubmitEnabled')]_vars

\* a submission has failed and the submit control is enabled again
C13_Witness ==
    /\ NetFailed(lastNet)
    /\ ErrorShown
    /\ SubmitEnabled
    /\ invocations = 1

(***************************************************************************)
(* C14                                                                     *)
(***************************************************************************)
\* this step selects a file: the file changes to a file, or an error is cleared
\* without a run of handleAnalyze
SelectStep ==
    \/ resumeFile' # resumeFile /\ resumeFile' # Null
    \/ error # Null /\ error' = Null /\ invocations' = invocations

\* C14: selecting a file sets the selected file, clears the error and leaves
\* description, result and isAnalyzing unchanged.
C14_SelectClearsError ==
    [][SelectStep
       => (/\ FormShown
           /\ resumeFile' \in {Some(f) : f \in Files}
           /\ error' = Null
           /\ jobDescription' = jobDescription
           /\ analysisResult' = analysisResult
           /\ isAnalyzing' = isAnalyzing
           /\ calls' = calls)]_vars

\* the error of a failed call has been cleared by a file selection
C14_Witness ==
    /\ NetFailed(lastNet)
    /\ error = Null
    /\ ~RequestInFlight
    /\ invocations = 1
    /\ resumeFile # Null

(***************************************************************************)
(* C15                                                                     *)
(***************************************************************************)
\* the call that settled last was successful and returned body
LastCallReturned(body) ==
    /\ IsResponse(lastNet)
    /\ ResponseOk(lastNet.response)
    /\ lastNet.response.body.parseable
    /\ lastNet.response.body.json = body

\* C15: the stored result is always null or exactly the body the most recent
\* successful call returned; it changes only by a successful call storing its
\* whole body, or to null by a new submit or by reset.
C15_ResultIsLastBody ==
    /\ [](analysisResult = JsonNull \/ LastCallReturned(analysisResult))
    /\ [][(analysisResult' # analysisResult)
          => \/ /\ SettledStep
                /\ IsResponse(lastNet') /\ ResponseOk(lastNet'.response)
                /\ analysisResult' = lastNet'.response.body.json
             \/ /\ analysisResult' = JsonNull
                /\ (SubmitStep \/ (ResultsShown /\ resumeFile' = Null))]_vars

\* the result of a second call is stored
C15_Witness ==
    /\ LastCallReturned(analysisResult)
    /\ analysisResult.id = "result-1"
    /\ invocations = 2
    /\ view.mounted

(***************************************************************************)
(* C16                                                                     *)
(***************************************************************************)
\* C16: for every 2xx response with a parseable body b analyzeResume returns b
\* unchanged, whatever b is.
C16_ReturnsBodyUnchanged ==
    \A i \in 1..Len(calls) :
        (/\ calls[i].phase = "json"
         /\ ResponseOk(calls[i].response)
         /\ calls[i].response.body.parseable)
        => LET outcome == AnalyzeResume(Net("response", NoThrown, calls[i].response))
           IN  /\ outcome.ok
               /\ outcome.value = calls[i].response.body.json

\* a 200 response whose body has the shape of an error is about to be returned
C16_Witness ==
    /\ Len(calls) = 1
    /\ calls[1].phase = "json"
    /\ calls[1].response.status = 200
    /\ calls[1].response.body = Body(TRUE, Json("object", "error", Some("Unsupported file type")))

(***************************************************************************)
(* C17                                                                     *)
(***************************************************************************)
\* the colour tiers of the score ring
RingTier(color) ==
    CASE color = "#8b5cf6" -> "excellent"
      [] color = "#6366f1" -> "good"
      [] color = "#f87171" -> "low"
      [] OTHER -> "none"

\* C17: for every score s in 0..100 the ring's tier is excellent iff s >= 80,
\* good iff 60 <= s < 80 and low iff s < 60.
C17_RingTier ==
    view.mounted =>
        LET s == view.analysis.ats_score
            tier == RingTier(Rendered.ringColor)
        IN  /\ tier = "excellent" <=> s >= 80
            /\ tier = "good" <=> (60 <= s /\ s < 80)
            /\ tier = "low" <=> s < 60

\* the score 80 is rendered in the excellent tier
C17_Witness ==
    /\ view.mounted
    /\ view.analysis.ats_score = 80
    /\ RingTier(Rendered.ringColor) = "excellent"

(***************************************************************************)
(* C18                                                                     *)
(***************************************************************************)
\* C18: the match proportion is 0 when matched and missing are both empty and
\* matched.length / (matched.length + missing.length) otherwise; the counts
\* shown are matched.length and missing.length.
C18_MatchProportion ==
    view.mounted =>
        LET matched == Len(view.analysis.keyword_matches)
            missing == Len(view.analysis.missing_keywords)
            height == Rendered.matchHeight
        IN  /\ height.den # 0
            /\ matched + missing = 0 => height.num = 0
            /\ matched + missing > 0
               => height.num * (matched + missing) = 100 * matched * height.den
            /\ Rendered.matchedCount = matched
            /\ Rendered.missingCount = missing

\* two matched and one missing keyword give two thirds
C18_Witness ==
    /\ view.mounted
    /\ Len(view.analysis.keyword_matches) = 2
    /\ Len(view.analysis.missing_keywords) = 1
    /\ Rendered.matchHeight.num * 3 = 100 * 2 * Rendered.matchHeight.den

(***************************************************************************)
(* C19                                                                     *)
(***************************************************************************)
\* the four counts of the bar chart
BarCounts ==
    << Len(view.analysis.strengths), Len(view.analysis.improvements),
       Len(view.analysis.missing_keywords), Len(view.analysis.keyword_matches) >>

StaticValuesShown ==
    /\ Rendered.matchedCount = Len(view.analysis.keyword_matches)
    /\ Rendered.missingCount = Len(view.analysis.missing_keywords)
    /\ 10 * Rendered.confidenceText <= view.analysis.confidence_score + 5
    /\ view.analysis.confidence_score + 5 < 10 * Rendered.confidenceText + 10
    /\ Rendered.barLabels = BarCounts

Timers == {"ringTimer", "barTimer", "confidenceTimer"}

\* this step mounts the component
MountStep == ~view.mounted /\ view'.mounted

\* this step runs the callback of timer t: the timer was pending and is spent,
\* and the step is neither a mount nor a teardown
CallbackStep(t) == view[t] /\ ~view'[t] /\ view'.mounted = view.mounted

\* C21: every timer is set by a mount only and is spent by its callback, so it
\* fires at most once per mount; the teardown cancels the pending timers; a
\* callback runs on the mounted component only, and while the component is
\* mounted its local state changes by one timer callback at a time.
C21_TimersFireOnce ==
    /\ [](~view.mounted => view = Unmounted)
    /\ [](view.mounted => ResultsShown)
    /\ [][\A t \in Timers : (view'[t] /\ ~view[t]) => MountStep]_vars
    /\ [][\A t \in Timers : CallbackStep(t) => (view.mounted /\ view'.mounted)]_vars
    /\ [][(view.mounted /\ view'.mounted /\ view' # view)
          => Cardinality({t \in Timers : CallbackStep(t)}) = 1]_vars
    /\ [][(view.mounted /\ ~view'.mounted) => \A t \in Timers : ~view'[t]]_vars

\* the component has been torn down by a reset after it showed result-1
C21_Witness ==
    /\ ~view.mounted
    /\ \A t \in Timers : ~view[t]
    /\ LastCallReturned(Json("object", "result-1", Null))
    /\ analysisResult = JsonNull
    /\ ~RequestInFlight

(***************************************************************************)
(* C22                                                                     *)
(***************************************************************************)
\* s starts with prefix
StartsWith(s, prefix) ==
    Len(s) >= Len(prefix) /\ SubSeq(s, 1, Len(prefix)) = prefix

\* a call of checkHealth has settled
HealthSettled == api.method = "checkHealth" /\ api.phase = "settled"

\* the GET returned a non-2xx status or the transport failed
HealthUnreachable ==
    \/ api.net.kind = "rejected"
    \/ IsResponse(api.net) /\ ~ResponseOk(api.net.response)

\* C22 as stated: checkHealth fails with a message prefixed "API connection
\* failed" whenever the GET returns a non-2xx status or the transport fails, and
\* returns the parsed JSON body otherwise.
C22_AsStated ==
    HealthSettled =>
        IF HealthUnreachable
        THEN /\ ~api.outcome.ok
             /\ StartsWith(api.outcome.error.message, "API connection failed")
        ELSE /\ api.outcome.ok
             /\ api.outcome.value = api.net.response.body.json

\* C22 amended: checkHealth fails with a message prefixed "API connection
\* failed" whenever the GET returns a non-2xx status, the transport fails or the
\* body of a 2xx response does not parse (then the prefix wraps the parse
\* error's message), and returns the parsed JSON body otherwise, that is for
\* every 2xx response with a parseable body.
C22_HealthFailsWithPrefix ==
    HealthSettled =>
        LET net == api.net
            message == api.outcome.error.message
        IN  /\ HealthUnreachable
               => (~api.outcome.ok /\ StartsWith(message, "API connection failed"))
            /\ (IsResponse(net) /\ ~ResponseOk(net.response))
               => message = "API connection failed: Health check failed: "
                               \o ToString(net.response.status)
            /\ (~HealthUnreachable /\ ~net.response.body.parseable)
               => (/\ ~api.outcome.ok
                   /\ message = "API connection failed: " \o SyntaxErrorMessage)
            /\ (~HealthUnreachable /\ net.response.body.parseable)
               => (/\ api.outcome.ok
                   /\ api.outcome.value = net.response.body.json)
            /\ api.outcome.ok <=> (~HealthUnreachable /\ net.response.body.parseable)

\* checkHealth has failed on status 500
C22_Witness ==
    /\ HealthSettled
    /\ api.net.response.status = 500
    /\ ~api.outcome.ok
    /\ api.outcome.error.message = "API connection failed: Health check failed: 500"

(***************************************************************************)
(* C23                                                                     *)
(***************************************************************************)
\* a call of testFileUpload has settled
UploadSettled == api.method = "testFileUpload" /\ api.phase = "settled"

MissingPlaceholder == "No missing keywords identified"
MatchesPlaceholder == "No keyword matches found"

\* text is one of the items shown
Shows(items, text) == \E i \in 1..Len(items) : items[i] = text

\* C24: the placeholder of a keyword list is shown exactly when that list is
\* empty; the strengths and improvements sections show their entries and
\* nothing else, also when empty; a non-empty list is shown in the order received.
C24_Placeholders ==
    view.mounted =>
        LET analysis == view.analysis
        IN  /\ Shows(Rendered.missingItems, MissingPlaceholder)
               <=> Len(analysis.missing_keywords) = 0
            /\ Shows(Rendered.matchedItems, MatchesPlaceholder)
               <=> Len(analysis.keyword_matches) = 0
            /\ Len(analysis.missing_keywords) = 0
               => Rendered.missingItems = <<MissingPlaceholder>>
            /\ Len(analysis.keyword_matches) = 0
               => Rendered.matchedItems = <<MatchesPlaceholder>>
            /\ Len(analysis.missing_keywords) > 0
               => Rendered.missingItems = analysis.missing_keywords
            /\ Len(analysis.keyword_matches) > 0
               => Rendered.matchedItems = analysis.keyword_matches
            /\ Rendered.strengthsItems = analysis.strengths
            /\ Rendered.improvementsItems = analysis.improvements

\* no strengths and no missing keywords, two matched keywords
C24_Witness ==
    /\ view.mounted
    /\ Rendered.strengthsItems = <<>>
    /\ Rendered.missingItems = <<"No missing keywords identified">>
    /\ Rendered.matchedItems = <<"match1", "match2">>
    /\ Len(Rendered.improvementsItems) = 1

(***************************************************************************)
(* C25                                                                     *)
(***************************************************************************)
\* the display values derived from the result: what is rendered (tier, labels,
\* match proportion, counts, list items, placeholders), with every animated
\* value replaced by the value it animates to
DerivedValues ==
    LET analysis == view.analysis
        barData == BarData(analysis)
        maxValue == MaxValue(barData)
    IN  [Rendered EXCEPT
            !.scoreNumber = analysis.ats_score,
            !.ringFill = Frac(analysis.ats_score, 100),
            !.confidenceWidth = ConfidencePercentage(analysis.confidence_score),
            !.barWidths = [i \in 1..Len(barData) |-> BarWidth(barData[i], maxValue, TRUE)]]

StoredCount ==
    (IF isAnalyzing THEN 1 ELSE 0) + (IF error # Null THEN 1 ELSE 0)
        + (IF analysisResult # JsonNull THEN 1 ELSE 0)

\* C26: at most one of isAnalyzing, error # null and result # null holds; the
\* results view is shown with no error and no request in flight, so reset cannot
\* be clicked while a response is pending.
C26_AtMostOneOf ==
    /\ StoredCount <= 1
    /\ ResultsShown => (error = Null /\ ~isAnalyzing /\ ~RequestInFlight)
    /\ RequestInFlight => ~ResultsShown

\* a result is shown after a second submission, with no error and no request
C26_Witness ==
    /\ ResultsShown
    /\ view.mounted
    /\ StoredCount = 1
    /\ posts = 2
    /\ ~RequestInFlight

(***************************************************************************)
(* C27                                                                     *)
(***************************************************************************)
GenericMessage == "Analysis failed. Please try again."

\* C27: with handleAnalyze run through the Analyze button only, the stored error
\* is null or a string that starts with "Analysis failed: "; it is never the
\* validation message and never the controller's generic fallback.
C27_ErrorHasPrefix ==
    error # Null =>
        /\ StartsWith(error[1], "Analysis failed: ")
        /\ error[1] # ValidationMessage
        /\ error[1] # GenericMessage

\* fetch rejected with a value that is no Error and carries nothing
C27_Witness ==
    /\ lastNet.kind = "rejected"
    /\ lastNet.thrown = Thrown(FALSE, "")
    /\ error = Some("Analysis failed: Unknown error occurred")
    /\ StartsWith(error[1], "Analysis failed: ")

(***************************************************************************)
(* C28                                                                     *)
(***************************************************************************)
\* the request of call i carries the same file and description after the step
SameRequest(i) ==
    /\ calls'[i].resumeFile = calls[i].resumeFile
    /\ calls'[i].jobDescription = calls[i].jobDescription

\* C28: an accepted submit puts the file and the description of that moment into
\* the request; selecting a file or editing the description while the request is
\* in flight leaves the request as it is and in flight; a call that settles
\* leaves the form's file and description as edited and applies the outcome of
\* the original request, the result on success and the error on failure.
C28_RequestFixedAtSubmit ==
    /\ [][SubmitStep
          => (/\ calls'[Len(calls')].resumeFile = resumeFile
              /\ calls'[Len(calls')].jobDescription = jobDescription)]_vars
    /\ [][(RequestInFlight /\ ~SettledStep)
          => (/\ Len(calls') = Len(calls)
              /\ \A i \in 1..Len(calls) : SameRequest(i)
              /\ isAnalyzing')]_vars
    /\ [][(RequestInFlight /\ (resumeFile' # resumeFile \/ jobDescription' # jobDescription))
          => calls' = calls]_vars
    /\ [][SettledStep
          => LET outcome == AnalyzeResume(lastNet')
             IN  /\ resumeFile' = resumeFile
                 /\ jobDescription' = jobDescription
                 /\ calls[1].phase = "json" => lastNet'.response = calls[1].response
                 /\ calls[1].phase = "fetch" => lastNet'.kind = "rejected"
                 /\ outcome.ok => analysisResult' = outcome.value
                 /\ ~outcome.ok => error' = Some(outcome.error.message)]_vars

\* the response of a request has arrived while the form holds another file and
\* another description than the request
C28_Witness ==
    /\ Len(calls) = 1
    /\ calls[1].phase = "json"
    /\ resumeFile # Null
    /\ resumeFile # calls[1].resumeFile
    /\ jobDescription # calls[1].jobDescription
    /\ jobDescription = ""

(***************************************************************************)
(* C29                                                                     *)
(***************************************************************************)
\* C29: for every score s the label is "Excellent" iff the ring tier is
\* excellent (s >= 80) and "Good" iff the ring tier is good (60 <= s < 80);
\* within the ring's low tier (s < 60) the label is "Fair" iff s >= 40 and
\* "Needs Improvement" iff s < 40.
C29_LabelRefinesTier ==
    view.mounted =>
        LET s == view.analysis.ats_score
            tier == RingTier(Rendered.ringColor)
            label == Rendered.scoreLabel
        IN  /\ label = "Excellent" <=> tier = "excellent"
            /\ tier = "excellent" <=> s >= 80
            /\ label = "Good" <=> tier = "good"
            /\ tier = "good" <=> (60 <= s /\ s < 80)
            /\ tier = "low" <=> s < 60
            /\ tier = "low" => /\ label = "Fair" <=> s >= 40
                               /\ label = "Needs Improvement" <=> s < 40
            /\ label \in {"Excellent", "Good", "Fair", "Needs Improvement"}

\* the score 40 is labelled Fair in the ring's low tier
C29_Witness ==
    /\ view.mounted
    /\ view.analysis.ats_score = 40
    /\ Rendered.scoreLabel = "Fair"
    /\ RingTier(Rendered.ringColor) = "low"

====
